---- MODULE Spec2Model ----
(***************************************************************************)
(* Camera fitting of the LU-Toolbox UGC render addon (cam_fit.py,          *)
(* cam_fit_ui.py) and the render operator around it (__init__.py).         *)
(*                                                                         *)
(* Numbers.  Lengths are fixed-point integers, UnitsPerWorld units to one  *)
(* world unit, so the solver's first step 0.1 is StepUnits units.  The     *)
(* expanding bracket doubles its step 40 times, which leaves the 32-bit    *)
(* range of TLC's integers; lengths that the camera can reach are          *)
(* therefore "wide" integers <<a, b, c>> = a*LimbBase^2 + b*LimbBase + c   *)
(* with 0 <= b, c < LimbBase.  A half field of view is kept as the tangent *)
(* the code takes of it, a fraction <<num, den>>.  A framing scale is kept *)
(* in tenths (10 is 1.0).                                                  *)
(***************************************************************************)
EXTENDS Integers, Sequences, FiniteSets, TLC

UnitsPerWorld == 10 * 10
StepUnits == UnitsPerWorld \div 10          \* 0.1 world units
LimbBase == 2 ^ 15

(***************************************************************************)
(* Wide integers                                                           *)
(***************************************************************************)
WNorm(a, b, c) ==
  LET b1 == b + (c \div LimbBase)
  IN  <<a + (b1 \div LimbBase), b1 % LimbBase, c % LimbBase>>

W(n) == WNorm(0, 0, n)

WZero == <<0, 0, 0>>

WAdd(u, v) ==
  IF v = WZero THEN u
  ELSE IF u = WZero THEN v
  ELSE WNorm(u[1] + v[1], u[2] + v[2], u[3] + v[3])

WNeg(u) == IF u = WZero THEN u ELSE WNorm(-u[1], -u[2], -u[3])

WSub(u, v) ==
  IF v = WZero THEN u ELSE WNorm(u[1] - v[1], u[2] - v[2], u[3] - v[3])

\* u * m for a small integer m (|m| < LimbBase)
WMul(u, m) ==
  IF m = 1 THEN u
  ELSE IF m = 0 THEN WZero
  ELSE WNorm(u[1] * m, u[2] * m, u[3] * m)

\* floor(u / m) for a small positive integer m
WDiv(u, m) ==
  LET t1 == (u[1] % m) * LimbBase + u[2]
      t2 == (t1 % m) * LimbBase + u[3]
  IN  WNorm(u[1] \div m, t1 \div m, t2 \div m)

WSign(u) == IF u[1] < 0 THEN -1 ELSE IF u = WZero THEN 0 ELSE 1

\* the order of u and v: -1, 0, 1
WCmp(u, v) ==
  IF u[1] # v[1] THEN (IF u[1] < v[1] THEN -1 ELSE 1)
  ELSE IF u[2] # v[2] THEN (IF u[2] < v[2] THEN -1 ELSE 1)
  ELSE IF u[3] # v[3] THEN (IF u[3] < v[3] THEN -1 ELSE 1)
  ELSE 0

WAbs(u) == IF u[1] < 0 THEN WNeg(u) ELSE u

RECURSIVE WMulBig(_, _)
\* u * m for a non-negative integer m, 7 bits of m at a time
WMulBig(u, m) ==
  IF m < 128 THEN WMul(u, m)
  ELSE WAdd(WMul(WMulBig(u, m \div 128), 128), WMul(u, m % 128))

MaxI(a, b) == IF a >= b THEN a ELSE b

(***************************************************************************)
(* Vectors: a world point of the subject is a triple of integers; a camera *)
(* location is a triple of wide integers.                                  *)
(***************************************************************************)
VW(p) == <<W(p[1]), W(p[2]), W(p[3])>>

VAdd(u, v) == <<WAdd(u[1], v[1]), WAdd(u[2], v[2]), WAdd(u[3], v[3])>>

VSub(u, v) == <<WSub(u[1], v[1]), WSub(u[2], v[2]), WSub(u[3], v[3])>>

\* axis * t for an axis with entries in {-1, 0, 1} and a wide t
VScale(axis, t) == <<WMul(t, axis[1]), WMul(t, axis[2]), WMul(t, axis[3])>>

VNegI(axis) == <<-axis[1], -axis[2], -axis[3]>>

\* dot product of a wide vector with an axis with entries in {-1, 0, 1}
VDot(u, axis) ==
  WAdd(WMul(u[1], axis[1]), WAdd(WMul(u[2], axis[2]), WMul(u[3], axis[3])))

(***************************************************************************)
(* cam_fit.py: collection helpers and geometry sampling                    *)
(***************************************************************************)
GeometryTypes == {"MESH", "CURVE", "SURFACE", "FONT", "META", "VOLUME", "EMPTY"}

\* cam_fit.py _is_render_candidate
_is_render_candidate(o) ==
  IF o.hide_render THEN FALSE
  ELSE IF ~o.visible THEN FALSE
  ELSE o.type \in GeometryTypes

\* matrix_world @ co, matrix_world being the object's translation
WorldOf(o, co) == <<o.origin[1] + co[1], o.origin[2] + co[2], o.origin[3] + co[3]>>

RECURSIVE WorldAll(_, _)
WorldAll(o, cos) ==
  IF cos = <<>> THEN <<>> ELSE <<WorldOf(o, Head(cos))>> \o WorldAll(o, Tail(cos))

\* the points one object adds in _world_points_evaluated: a mesh gives its
\* evaluated vertices when to_mesh() returns a mesh and nothing otherwise;
\* any other candidate gives its bound_box corners when it has a bound_box
ObjectPoints(o) ==
  IF ~_is_render_candidate(o) THEN <<>>
  ELSE IF o.type = "MESH"
       THEN IF o.to_mesh = "ok" THEN WorldAll(o, o.vertices) ELSE <<>>
       ELSE WorldAll(o, o.bound_box)

RECURSIVE _world_points_evaluated(_)
_world_points_evaluated(objs) ==
  IF objs = <<>> THEN <<>>
  ELSE ObjectPoints(Head(objs)) \o _world_points_evaluated(Tail(objs))

(***************************************************************************)
(* cam_fit.py: camera helpers                                              *)
(***************************************************************************)
\* _cam_axes: the rotation is kept as the images of the X, Y and Z axes
_cam_axes(c) ==
  [right |-> c.rotation[1], up |-> c.rotation[2], fwd |-> VNegI(c.rotation[3])]

\* matrix_world.inverted() @ p for a camera at location loc
CamLocal(c, loc, p) ==
  LET dv == VSub(VW(p), loc)
  IN  [x |-> VDot(dv, c.rotation[1]),
       y |-> VDot(dv, c.rotation[2]),
       z |-> VDot(dv, c.rotation[3])]

RECURSIVE Gcd(_, _)
Gcd(a, b) == IF b = 0 THEN a ELSE Gcd(b, a % b)

Frac(n, d) == LET g == Gcd(n, d) IN <<n \div g, d \div g>>

NoAngle == <<0, 1>>

\* tan(radians(50.0) * 0.5)
TanDefault == <<4663, 10000>>

\* _get_fov_xy, each angle given by the tangent of its half:
\* tan(atan(s / (2 lens))) = s / (2 lens), and the aspect ratio multiplies
\* or divides it
_get_fov_xy(c, render) ==
  LET cd == c.data
      aspect == IF render.resolution_y # 0
                THEN Frac(render.resolution_x, render.resolution_y)
                ELSE <<1, 1>>
      th == Frac(cd.sensor_width, 2 * cd.lens)
      tv == Frac(cd.sensor_height, 2 * cd.lens)
      hFromV == Frac(tv[1] * aspect[1], tv[2] * aspect[2])
      vFromH == Frac(th[1] * aspect[2], th[2] * aspect[1])
  IN  IF cd.type = "ORTHO" THEN <<NoAngle, NoAngle>>
      ELSE IF cd.angle_x # NoAngle /\ cd.angle_y # NoAngle
           THEN <<cd.angle_x, cd.angle_y>>
      ELSE IF cd.sensor_fit = "VERTICAL" THEN <<hFromV, tv>>
      ELSE IF cd.sensor_fit = "HORIZONTAL" THEN <<th, vFromH>>
      ELSE IF aspect[1] * cd.sensor_height >= cd.sensor_width * aspect[2]
           THEN <<th, vFromH>>
           ELSE <<hFromV, tv>>

\* tan((fx or radians(50.0)) * 0.5), floored at 1e-9 (below one model unit)
TanOf(f) == IF f = NoAngle THEN TanDefault ELSE f

(***************************************************************************)
(* cam_fit.py: the normalized extent r_max and the framing-scale dolly     *)
(***************************************************************************)
\* order (-1, 0, 1) of one lateral term |a| / (d * tan) against cnum/cden,
\* where d = max(1e-9, depth): a point at or behind the camera plane has a
\* term beyond every bound unless its offset is zero, and then the term is 0
TermCmp(a, depth, tan, cnum, cden) ==
  IF WSign(depth) > 0
  THEN WCmp(WMulBig(WMul(WAbs(a), tan[2]), cden), WMulBig(WMul(depth, tan[1]), cnum))
  ELSE IF a # WZero THEN 1 ELSE IF cnum = 0 THEN 0 ELSE -1

PointCmp(c, loc, p, tanFx, tanFy, cnum, cden) ==
  LET cp == CamLocal(c, loc, p)
      d == WNeg(cp.z)
  IN  MaxI(TermCmp(cp.x, d, tanFx, cnum, cden), TermCmp(cp.y, d, tanFy, cnum, cden))

RECURSIVE RMaxCmp(_, _, _, _, _, _, _)
\* order of rmax = max(0.0, terms of every point) against cnum/cden
RMaxCmp(c, loc, pts, tanFx, tanFy, cnum, cden) ==
  IF pts = <<>> THEN (IF cnum = 0 THEN 0 ELSE -1)
  ELSE MaxI(PointCmp(c, loc, Head(pts), tanFx, tanFy, cnum, cden),
            RMaxCmp(c, loc, Tail(pts), tanFx, tanFy, cnum, cden))

\* target = 1.0
target == <<1, 1>>

\* r_max_at that leaves the camera at the probed place
r_max_at_unrestored(c, pts, tanFx, tanFy, loc) ==
  LET probe == [c EXCEPT !.location = loc]
      rmax == RMaxCmp(probe, probe.location, pts, tanFx, tanFy, target[1], target[2])
  IN  [v |-> rmax, cam |-> probe]

\* r_max_at(loc): puts the camera at loc, measures, puts the camera back.
\* The value is carried as its order against target (-1 below, 0 equal,
\* 1 above), which is all the solve reads of it.
r_max_at(c, pts, tanFx, tanFy, loc) ==
  LET old == c.location
      probe == [c EXCEPT !.location = loc]
      rmax == RMaxCmp(probe, probe.location, pts, tanFx, tanFy, target[1], target[2])
  IN  [v |-> rmax, cam |-> [probe EXCEPT !.location = old]]

\* camera-space depth -(M @ p).z of p for the camera where it is
DepthOf(c, p) == WNeg(CamLocal(c, c.location, p).z)

RECURSIVE PositiveDepths(_, _)
\* the depths dz > 1e-6 (a model unit is above 1e-6)
PositiveDepths(c, pts) ==
  IF pts = <<>> THEN <<>>
  ELSE LET dz == DepthOf(c, Head(pts))
       IN  (IF WSign(dz) > 0 THEN <<dz>> ELSE <<>>) \o PositiveDepths(c, Tail(pts))

\* sorted(depths)[k], k counted from 0
SortedAt(depths, k) ==
  LET n == Len(depths)
      below(i) == Cardinality({j \in 1..n : WCmp(depths[j], depths[i]) < 0})
      upto(i) == Cardinality({j \in 1..n : WCmp(depths[j], depths[i]) <= 0})
  IN  depths[CHOOSE i \in 1..n : below(i) <= k /\ k < upto(i)]

\* est of _tiny_margin_dolly: the median positive depth, 1.0 without one
DollyEst(c, pts) ==
  LET depths == PositiveDepths(c, pts)
  IN  IF depths = <<>> THEN W(UnitsPerWorld)
      ELSE SortedAt(depths, Len(depths) \div 2)

\* DollyDelta with the sign of the framing-scale offset reversed
DollyDeltaReversed(c, fs, pts) == WDiv(WMul(DollyEst(c, pts), 10 - fs), 100)

\* delta = (framing_scale - 1.0) * 0.1 * est, the scale in tenths
DollyDelta(c, fs, pts) == WDiv(WMul(DollyEst(c, pts), fs - 10), 100)

\* _tiny_margin_dolly moving along the up axis instead of the forward axis
DollySideways(c, fs, pts) ==
  IF fs = 10 THEN c
  ELSE [c EXCEPT !.location =
          VAdd(@, VScale(VNegI(_cam_axes(c).up), DollyDelta(c, fs, pts)))]

\* _tiny_margin_dolly: cam.location += (-fwd) * delta
_tiny_margin_dolly(c, fs, pts) ==
  IF fs = 10 THEN c
  ELSE [c EXCEPT !.location =
          VAdd(@, VScale(VNegI(_cam_axes(c).fwd), DollyDelta(c, fs, pts)))]

(***************************************************************************)
(* cam_fit.py: VIEW_3D context helpers.  The host context is               *)
(* ctx = [window, areas, selected, active]; an area is                     *)
(* [type, regions, spaces].                                                *)
(***************************************************************************)
UsableView3d(a) ==
  a.type = "VIEW_3D" /\ "WINDOW" \in a.regions /\ "VIEW_3D" \in a.spaces

\* area.type = 'VIEW_3D' in the host: the area shows a 3D view space, which
\* stays in area.spaces when the type is set back
FlipToView3d(a) == [a EXCEPT !.type = "VIEW_3D", !.spaces = @ \cup {"VIEW_3D"}]

\* _find_view3d_area_and_region: [found, area, areas], areas being the
\* screen's areas as the call leaves them (each flipped area has its type
\* set back by the finally clause)
_find_view3d_area_and_region(c) ==
  LET n == Len(c.areas)
      direct == {i \in 1..n : UsableView3d(c.areas[i])}
      flippable == {i \in 1..n : UsableView3d(FlipToView3d(c.areas[i]))}
      Min(S) == CHOOSE i \in S : \A j \in S : i <= j
      tried(last) == [i \in 1..n |->
                        IF i <= last
                        THEN [FlipToView3d(c.areas[i]) EXCEPT !.type = c.areas[i].type]
                        ELSE c.areas[i]]
  IN  IF ~c.window THEN [found |-> FALSE, area |-> 0, areas |-> c.areas]
      ELSE IF direct # {} THEN [found |-> TRUE, area |-> Min(direct), areas |-> c.areas]
      ELSE IF flippable # {}
           THEN [found |-> TRUE, area |-> Min(flippable), areas |-> tried(Min(flippable))]
           ELSE [found |-> FALSE, area |-> 0, areas |-> tried(n)]

\* _override_for_view3d: None ("none") when the area holds no 3D view space
_override_for_view3d(area) ==
  IF "VIEW_3D" \in area.spaces THEN "override" ELSE "none"

(***************************************************************************)
(* State                                                                   *)
(***************************************************************************)
VARIABLES
  cam,        \* the camera object: location, rotation, data
  scene,      \* the scene: its active camera and render settings
  ctx,        \* the host context: window, screen areas, selection, active object
  args,       \* the arguments of the running call
  pc,         \* where the running call stands
  pts_world,  \* fit_camera_to_objects: the sampled points
  saved,      \* fit_camera_to_objects: prev_sel, prev_active
  hl,         \* _headless_fit_z_only: its locals
  ui,         \* fit_camera_ui: its locals
  hist,       \* what the call did so far, and the state at its entry
  ex          \* LUUGC_OT_RenderIcon.execute: its locals, the window's scene,
              \* the material slots

fitVars == <<cam, scene, ctx, args, pc, pts_world, saved, hl, ui, hist>>

vars == <<fitVars, ex>>

\* range(40) of the expanding bracket and of the bisection
ExpandBudget == 40
BisectBudget == 40

NoLocals ==
  [tanFx |-> NoAngle, tanFy |-> NoAngle, base |-> <<WZero, WZero, WZero>>,
   fwd |-> <<0, 0, 0>>, cur |-> 0, go_forward |-> FALSE,
   lo_t |-> WZero, hi_t |-> WZero, lo_v |-> 0, hi_v |-> 0, step |-> WZero, k |-> 0]

SomeBehind(c, loc, pts) ==
  \E i \in 1..Len(pts) : WSign(WNeg(CamLocal(c, loc, pts[i]).z)) <= 0

(***************************************************************************)
(* cam_fit.py: fit_camera_to_objects                                       *)
(***************************************************************************)
\* Strategy with force_headless ignored
StrategyUnforced(force_headless, view) ==
  IF view.found /\ _override_for_view3d(view.areas[view.area]) # "none"
  THEN "operator"
  ELSE "headless"

\* lines 267-319: the forced math fit, else the operator when a 3D viewport
\* and its override are found, else the math fit
Strategy(force_headless, view) ==
  IF force_headless THEN "headless"
  ELSE IF view.found /\ _override_for_view3d(view.areas[view.area]) # "none"
       THEN "operator"
       ELSE "headless"

\* lines 259-276: the guard on objects, the sampling, the choice of strategy
FitEnter ==
  /\ pc = "call"
  /\ args.entry = "fit_camera_to_objects"
  /\ IF args.objects = <<>>
     THEN /\ pc' = "return"
          /\ UNCHANGED <<cam, scene, ctx, pts_world, saved, hl, ui, hist>>
     ELSE LET pts == _world_points_evaluated(args.objects)
              view == _find_view3d_area_and_region(ctx)
          IN  /\ scene' = [scene EXCEPT !.camera = "cam"]
              /\ pts_world' = pts
              /\ ctx' = IF args.force_headless THEN ctx
                        ELSE [ctx EXCEPT !.areas = view.areas]
              /\ pc' = IF Strategy(args.force_headless, view) = "operator"
                        THEN "op_select" ELSE "headless"
              /\ UNCHANGED <<cam, saved, hl, ui, hist>>
  /\ UNCHANGED args
  /\ UNCHANGED ex

ObjectNames(objs) == {objs[i].name : i \in 1..Len(objs)}

\* lines 278-289: save the selection, select the objects to frame
OpSelect ==
  /\ pc = "op_select"
  /\ saved' = [prev_sel |-> ctx.selected, prev_active |-> ctx.active]
  /\ ctx' = [ctx EXCEPT !.selected = ObjectNames(args.objects),
                        !.active = args.objects[1].name]
  /\ hist' = [hist EXCEPT !.sel_writes = TRUE]
  /\ pc' = "op_view"
  /\ UNCHANGED <<cam, scene, args, pts_world, hl, ui>>
  /\ UNCHANGED ex

\* lines 292-295: bpy.ops.view3d.view_camera, a failure is printed
OpViewCamera ==
  /\ pc = "op_view"
  /\ pc' = "op_align"
  /\ UNCHANGED <<cam, scene, ctx, args, pts_world, saved, hl, ui, hist>>
  /\ UNCHANGED ex

\* where the host's camera_to_view_selected may put the camera: it keeps the
\* rotation and moves the camera, here to one of a few places around where
\* the call found it
HostPlacements(c) ==
  LET ax == _cam_axes(c)
  IN  { c.location,
        VAdd(c.location, VScale(VNegI(ax.fwd), W(30 * UnitsPerWorld))),
        VAdd(VAdd(c.location, VScale(ax.right, W(2 * UnitsPerWorld))),
             VScale(ax.fwd, W(5 * UnitsPerWorld))) }

\* lines 296-300: bpy.ops.view3d.camera_to_view_selected; it raises (and the
\* failure is printed) or it moves the camera
OpAlign ==
  /\ pc = "op_align"
  /\ \/ UNCHANGED cam
     \/ \E loc \in HostPlacements(cam) : cam' = [cam EXCEPT !.location = loc]
  /\ hist' = [hist EXCEPT !.operator = @ + 1]
  /\ pc' = "op_dolly"
  /\ UNCHANGED <<scene, ctx, args, pts_world, saved, hl, ui>>
  /\ UNCHANGED ex

\* line 303: the framing-scale dolly after the operator
OpDolly ==
  /\ pc = "op_dolly"
  /\ cam' = _tiny_margin_dolly(cam, args.margin, pts_world)
  /\ pc' = "op_restore"
  /\ UNCHANGED <<scene, ctx, args, pts_world, saved, hl, ui, hist>>
  /\ UNCHANGED ex

\* lines 306-313: put the selection back; a failure inside is swallowed.
\* The second disjunct is select_set(True) raising on the first object of
\* prev_sel, after everything was deselected.
OpRestore ==
  /\ pc = "op_restore"
  /\ \/ ctx' = [ctx EXCEPT !.selected = saved.prev_sel, !.active = saved.prev_active]
     \/ /\ saved.prev_sel # {}
        /\ ctx' = [ctx EXCEPT !.selected = {}]
  /\ pc' = "return"
  /\ UNCHANGED <<cam, scene, args, pts_world, saved, hl, ui, hist>>
  /\ UNCHANGED ex

(***************************************************************************)
(* cam_fit.py: _headless_fit_z_only, one action per loop iteration         *)
(***************************************************************************)
\* lines 183-212: the guard on the points, the field of view, the first
\* measure at the camera's own place, the search direction
HeadlessStart ==
  /\ pc = "headless"
  /\ IF pts_world = <<>>
     THEN /\ pc' = "return"
          /\ UNCHANGED <<cam, hl>>
          /\ hist' = [hist EXCEPT !.headless = @ + 1]
     ELSE LET fov == _get_fov_xy(cam, scene.render)
              tx == TanOf(fov[1])
              ty == TanOf(fov[2])
              base == cam.location
              probe == r_max_at(cam, pts_world, tx, ty, base)
          IN  /\ cam' = probe.cam
              /\ hl' = [tanFx |-> tx, tanFy |-> ty, base |-> base,
                        fwd |-> _cam_axes(cam).fwd,
                        cur |-> probe.v, go_forward |-> probe.v < 0,
                        lo_t |-> WZero, hi_t |-> WZero,
                        lo_v |-> probe.v, hi_v |-> probe.v,
                        step |-> W(StepUnits), k |-> 0]
              /\ hist' = [hist EXCEPT !.headless = @ + 1,
                                      !.first_eval_behind = SomeBehind(cam, base, pts_world)]
              /\ pc' = "expand"
  /\ UNCHANGED <<scene, ctx, args, pts_world, saved, ui>>
  /\ UNCHANGED ex

\* AlongFwd with the camera's right axis in the place of its forward axis
AlongRight(t) == VAdd(hl.base, VScale(_cam_axes(cam).right, t))

\* base + fwd * t
AlongFwd(t) == VAdd(hl.base, VScale(hl.fwd, t))

CrossedForwardOnly(v) == v >= 0

\* crossed = (v >= target) if go_forward else (v <= target)
Crossed(v) == IF hl.go_forward THEN v >= 0 ELSE v <= 0

\* lines 213-222: one iteration of the expanding bracket
ExpandStep ==
  /\ pc = "expand"
  /\ hl.k < ExpandBudget
  /\ LET test_t == IF hl.go_forward THEN WAdd(hl.hi_t, hl.step)
                                    ELSE WSub(hl.hi_t, hl.step)
         probe == r_max_at(cam, pts_world, hl.tanFx, hl.tanFy, AlongFwd(test_t))
     IN  /\ cam' = probe.cam
         /\ hist' = [hist EXCEPT !.last_test = test_t]
         /\ IF Crossed(probe.v)
            THEN /\ hl' = [hl EXCEPT !.lo_t = hl.hi_t, !.hi_t = test_t,
                                     !.lo_v = hl.hi_v, !.hi_v = probe.v, !.k = 0]
                 /\ pc' = "bisect"
            ELSE /\ hl' = [hl EXCEPT !.hi_t = test_t, !.hi_v = probe.v,
                                     !.step = WMul(hl.step, 2), !.k = @ + 1]
                 /\ pc' = "expand"
  /\ UNCHANGED <<scene, ctx, args, pts_world, saved, ui>>
  /\ UNCHANGED ex

\* ExpandExhausted without the framing-scale dolly
ExpandExhaustedNoDolly ==
  /\ pc = "expand"
  /\ hl.k = ExpandBudget
  /\ cam' = [cam EXCEPT !.location = AlongFwd(hl.hi_t)]
  /\ hist' = [hist EXCEPT !.unbracketed = TRUE]
  /\ pc' = "return"
  /\ UNCHANGED <<scene, ctx, args, pts_world, saved, hl, ui, ex>>

\* lines 223-227: the bracket was never closed
ExpandExhausted ==
  /\ pc = "expand"
  /\ hl.k = ExpandBudget
  /\ cam' = _tiny_margin_dolly([cam EXCEPT !.location = AlongFwd(hl.hi_t)],
                               args.margin, pts_world)
  /\ hist' = [hist EXCEPT !.unbracketed = TRUE]
  /\ pc' = "return"
  /\ UNCHANGED <<scene, ctx, args, pts_world, saved, hl, ui>>
  /\ UNCHANGED ex

\* lines 229-241: one iteration of the bisection
BisectStep ==
  /\ pc = "bisect"
  /\ hl.k < BisectBudget
  /\ LET mid_t == WDiv(WAdd(hl.lo_t, hl.hi_t), 2)
         probe == r_max_at(cam, pts_world, hl.tanFx, hl.tanFy, AlongFwd(mid_t))
         keep_lo == IF hl.go_forward THEN probe.v < 0 ELSE probe.v > 0
     IN  /\ cam' = probe.cam
         /\ hl' = IF keep_lo
                  THEN [hl EXCEPT !.lo_t = mid_t, !.lo_v = probe.v, !.k = @ + 1]
                  ELSE [hl EXCEPT !.hi_t = mid_t, !.hi_v = probe.v, !.k = @ + 1]
  /\ pc' = "bisect"
  /\ UNCHANGED <<scene, ctx, args, pts_world, saved, ui, hist>>
  /\ UNCHANGED ex

\* lines 243-246: move to the bracket's crossed end, then the dolly
BisectDone ==
  /\ pc = "bisect"
  /\ hl.k = BisectBudget
  /\ cam' = _tiny_margin_dolly([cam EXCEPT !.location = AlongFwd(hl.hi_t)],
                               args.margin, pts_world)
  /\ pc' = "return"
  /\ UNCHANGED <<scene, ctx, args, pts_world, saved, hl, ui, hist>>
  /\ UNCHANGED ex

(***************************************************************************)
(* cam_fit_ui.py: fit_camera_ui.  A half extent on screen is a fraction    *)
(* <<num, den>> of the view rectangle; offsets along the dolly axis stay   *)
(* within the integers.                                                    *)
(***************************************************************************)
\* cam_fit_ui.py _is_render_candidate: meshes only
ui_is_render_candidate(o) ==
  IF o.type # "MESH" THEN FALSE
  ELSE IF o.hide_render THEN FALSE
  ELSE IF ~o.visible THEN FALSE
  ELSE TRUE

RECURSIVE MeshObjects(_)
\* mesh_objs = [o for o in objects if _is_render_candidate(o)]
MeshObjects(objs) ==
  IF objs = <<>> THEN <<>>
  ELSE (IF ui_is_render_candidate(Head(objs)) THEN <<Head(objs)>> ELSE <<>>)
       \o MeshObjects(Tail(objs))

RECURSIVE ScreenPoints(_)
\* the points of _screen_half_extent: the evaluated vertices, or the
\* bound_box corners when to_mesh() raises or returns nothing
ScreenPoints(objs) ==
  IF objs = <<>> THEN <<>>
  ELSE LET o == Head(objs)
       IN  (IF o.to_mesh = "ok" THEN WorldAll(o, o.vertices)
            ELSE WorldAll(o, o.bound_box)) \o ScreenPoints(Tail(objs))

WToInt(u) == u[1] * LimbBase * LimbBase + u[2] * LimbBase + u[3]

AbsI(n) == IF n < 0 THEN -n ELSE n

\* the order of two fractions with positive denominators: -1, 0, 1
RatCmp(p, q) == WCmp(WMulBig(W(p[1]), q[2]), WMulBig(W(q[1]), p[2]))

RatMax(p, q) == IF RatCmp(p, q) >= 0 THEN p ELSE q

\* |u - 0.5| and |v - 0.5| of world_to_camera_view for one point, the larger:
\* a perspective camera divides the offset by the frame at the point's depth
\* (z = 0 maps to the centre); an orthographic one by ortho_scale
PointHalfExtent(c, p) ==
  LET cp == CamLocal(c, c.location, p)
      x == AbsI(WToInt(cp.x))
      y == AbsI(WToInt(cp.y))
      z == AbsI(WToInt(cp.z))
      cd == c.data
  IN  IF cd.type = "ORTHO" THEN RatMax(<<x, cd.ortho_scale>>, <<y, cd.ortho_scale>>)
      ELSE IF z = 0 THEN <<0, 1>>
      ELSE RatMax(<<x * cd.angle_x[2], 2 * z * cd.angle_x[1]>>,
                  <<y * cd.angle_y[2], 2 * z * cd.angle_y[1]>>)

RECURSIVE MaxHalfExtent(_, _)
MaxHalfExtent(c, pts) ==
  IF pts = <<>> THEN <<0, 1>>
  ELSE RatMax(PointHalfExtent(c, Head(pts)), MaxHalfExtent(c, Tail(pts)))

\* _screen_half_extent: 0.5 without points
_screen_half_extent(c, objs) ==
  LET pts == ScreenPoints(objs)
  IN  IF pts = <<>> THEN <<1, 2>> ELSE MaxHalfExtent(c, pts)

NoUi ==
  [mesh_objs |-> <<>>, base |-> <<0, 1>>, target |-> <<0, 1>>,
   origin |-> <<WZero, WZero, WZero>>, dir_vec |-> <<0, 0, 0>>, backward |-> FALSE,
   lo |-> 0, hi |-> 0, step |-> 0, k |-> 0]

\* range(24) of the expanding bracket and range(28) of the bisection
UiExpandBudget == 24
UiBisectBudget == 28

\* lines 70-101: the 3D view, the selection of the meshes, the override
UiEnter ==
  /\ pc = "call"
  /\ args.entry = "fit_camera_ui"
  /\ LET views == {i \in 1..Len(ctx.areas) : ctx.areas[i].type = "VIEW_3D"}
         view3d == ctx.areas[CHOOSE i \in views : \A j \in views : i <= j]
         mesh_objs == MeshObjects(args.objects)
     IN  IF ~ctx.window
         THEN \* context.window is None: context.window.screen raises
              /\ pc' = "raised"
              /\ UNCHANGED <<scene, ctx, ui, hist>>
         ELSE IF views = {}
         THEN /\ pc' = "return"
              /\ UNCHANGED <<scene, ctx, ui, hist>>
         ELSE IF mesh_objs = <<>>
         THEN /\ ctx' = [ctx EXCEPT !.selected = {}]
              /\ hist' = [hist EXCEPT !.sel_writes = (ctx.selected # {})]
              /\ pc' = "return"
              /\ UNCHANGED <<scene, ui>>
         ELSE /\ ctx' = [ctx EXCEPT !.selected = ObjectNames(mesh_objs),
                                    !.active = mesh_objs[1].name]
              /\ hist' = [hist EXCEPT !.sel_writes = TRUE]
              /\ scene' = [scene EXCEPT !.camera = "cam"]
              /\ ui' = [ui EXCEPT !.mesh_objs = mesh_objs]
              /\ pc' = IF "WINDOW" \in view3d.regions THEN "ui_align"
                       ELSE "raised"     \* next() finds no WINDOW region
  /\ UNCHANGED <<cam, args, pts_world, saved, hl>>
  /\ UNCHANGED ex

\* line 102: bpy.ops.view3d.camera_to_view_selected, not guarded: it raises
\* out of fit_camera_ui, or it moves the camera
UiAlign ==
  /\ pc = "ui_align"
  /\ \/ /\ pc' = "raised"
        /\ UNCHANGED cam
     \/ /\ \E loc \in HostPlacements(cam) : cam' = [cam EXCEPT !.location = loc]
        /\ pc' = "ui_base"
  /\ hist' = [hist EXCEPT !.operator = @ + 1]
  /\ UNCHANGED <<scene, ctx, args, pts_world, saved, hl, ui>>
  /\ UNCHANGED ex

\* lines 105-116: the half extent as framed, the target, the direction
UiBase ==
  /\ pc = "ui_base"
  /\ LET base == _screen_half_extent(cam, ui.mesh_objs)
         tgt == <<base[1] * 10, base[2] * args.margin>>
         back == RatCmp(tgt, base) < 0
         fwd == _cam_axes(cam).fwd
     IN  IF RatCmp(base, <<1, 1000000>>) > 0 /\ args.margin # 10
         THEN /\ ui' = [ui EXCEPT !.base = base, !.target = tgt, !.origin = cam.location,
                                  !.dir_vec = IF back THEN VNegI(fwd) ELSE fwd,
                                  !.backward = back, !.lo = 0, !.hi = 0,
                                  !.step = UnitsPerWorld \div 20, !.k = 0]
              /\ pc' = "ui_expand"
         ELSE /\ ui' = [ui EXCEPT !.base = base]
              /\ pc' = "return"
  /\ UNCHANGED <<cam, scene, ctx, args, pts_world, saved, hl, hist>>
  /\ UNCHANGED ex

\* origin + dir_vec * t
AlongDir(t) == VAdd(ui.origin, VScale(ui.dir_vec, W(t)))

\* the half extent with the camera at origin + dir_vec * t
ExtentAt(t) == _screen_half_extent([cam EXCEPT !.location = AlongDir(t)], ui.mesh_objs)

\* (target < base and h <= target) or (target > base and h >= target)
UiCrossed(h) ==
  IF ui.backward THEN RatCmp(h, ui.target) <= 0 ELSE RatCmp(h, ui.target) >= 0

\* lines 117-125: one iteration of the expanding bracket; the camera stays
\* where the iteration put it.  step *= 1.6 is taken in whole units.
UiExpandStep ==
  /\ pc = "ui_expand"
  /\ ui.k < UiExpandBudget
  /\ LET test == ui.hi + ui.step
     IN  /\ cam' = [cam EXCEPT !.location = AlongDir(test)]
         /\ hist' = [hist EXCEPT !.last_test = W(test)]
         /\ IF UiCrossed(ExtentAt(test))
            THEN /\ ui' = [ui EXCEPT !.hi = test, !.k = 0]
                 /\ pc' = "ui_bisect"
            ELSE /\ ui' = [ui EXCEPT !.hi = test, !.step = (@ * 16) \div 10, !.k = @ + 1]
                 /\ pc' = "ui_expand"
  /\ UNCHANGED <<scene, ctx, args, pts_world, saved, hl>>
  /\ UNCHANGED ex

\* the loop ran out; hi > 0.0 holds and the bisection follows
UiExpandExhausted ==
  /\ pc = "ui_expand"
  /\ ui.k = UiExpandBudget
  /\ ui' = [ui EXCEPT !.k = 0]
  /\ hist' = [hist EXCEPT !.unbracketed = TRUE]
  /\ pc' = IF ui.hi > 0 THEN "ui_bisect" ELSE "return"
  /\ UNCHANGED <<cam, scene, ctx, args, pts_world, saved, hl>>
  /\ UNCHANGED ex

\* lines 127-134: one iteration of the bisection
UiBisectStep ==
  /\ pc = "ui_bisect"
  /\ ui.k < UiBisectBudget
  /\ LET mid == (ui.lo + ui.hi) \div 2
         h == ExtentAt(mid)
         keep_lo == IF ui.backward THEN RatCmp(h, ui.target) > 0
                                   ELSE RatCmp(h, ui.target) < 0
     IN  /\ cam' = [cam EXCEPT !.location = AlongDir(mid)]
         /\ ui' = IF keep_lo THEN [ui EXCEPT !.lo = mid, !.k = @ + 1]
                             ELSE [ui EXCEPT !.hi = mid, !.k = @ + 1]
  /\ pc' = "ui_bisect"
  /\ UNCHANGED <<scene, ctx, args, pts_world, saved, hl, hist>>
  /\ UNCHANGED ex

\* line 135: the camera goes to the bracket's far end
UiBisectDone ==
  /\ pc = "ui_bisect"
  /\ ui.k = UiBisectBudget
  /\ cam' = [cam EXCEPT !.location = AlongDir(ui.hi)]
  /\ pc' = "return"
  /\ UNCHANGED <<scene, ctx, args, pts_world, saved, hl, ui, hist>>
  /\ UNCHANGED ex

(***************************************************************************)
(* The caller: the call returns; the same call may be made once more       *)
(***************************************************************************)
EntryHist(c, x, n, first) ==
  [cam0 |-> c, ctx0 |-> x,
   headless |-> 0, operator |-> 0, sel_writes |-> FALSE,
   first_eval_behind |-> FALSE, unbracketed |-> FALSE, last_test |-> WZero,
   call_no |-> n, first_loc |-> first]

CallAgain ==
  /\ pc = "return"
  /\ args.calls_left > 0
  /\ args' = [args EXCEPT !.calls_left = @ - 1]
  /\ hist' = EntryHist(cam, ctx, hist.call_no + 1, cam.location)
  /\ hl' = NoLocals
  /\ pts_world' = <<>>
  /\ saved' = [prev_sel |-> {}, prev_active |-> "none"]
  /\ pc' = "call"
  /\ ui' = NoUi
  /\ UNCHANGED <<cam, scene, ctx>>
  /\ UNCHANGED ex

(***************************************************************************)
(* __init__.py: LUUGC_OT_RenderIcon.execute.  ex.window_scene is           *)
(* context.window.scene, ex.slots the material of every slot of every mesh *)
(* object of the framed collection, by object name, ex.log the steps       *)
(* execute has started, in the order it started them.                      *)
(***************************************************************************)
\* objects of the collection that are framed
collect_render_objects_from_collection(col) == SelectSeq(col, _is_render_candidate)

IsRenderMesh(o) == o.type = "MESH" /\ ~o.hide_render

\* objects of the collection whose materials are remapped
_collect_mesh_objects_in_collection(col) == SelectSeq(col, IsRenderMesh)

\* no execute is running
NoEx ==
  [pc |-> "none", lod_col |-> <<>>, append_ok |-> FALSE, has_camera |-> FALSE,
   mapping |-> <<>>, window_scene |-> "user", prev_scene |-> "none",
   slots |-> <<>>, mesh_objs |-> <<>>, restore_record |-> {}, record |-> {},
   restore |-> <<>>, o |-> 1, i |-> 1, raised |-> FALSE, result |-> "none",
   scene0 |-> "user", slots0 |-> <<>>, log |-> <<>>]

\* mapping.get(name): the render material, or "none"
MappingGet(mapping, name) ==
  IF \E j \in 1..Len(mapping) : mapping[j][1] = name
  THEN LET j == CHOOSE j \in 1..Len(mapping) : mapping[j][1] = name
       IN  mapping[j][2]
  ELSE "none"

\* lines 212-261: remember the scene, append the target scene, switch to it,
\* collect the objects, look for the camera
ExEnter ==
  /\ ex.pc = "entry"
  /\ IF ~ex.append_ok
     THEN ex' = [ex EXCEPT !.prev_scene = ex.window_scene,
                           !.result = "CANCELLED", !.pc = "done"]
     ELSE IF ~ex.has_camera
     THEN ex' = [ex EXCEPT !.prev_scene = ex.window_scene,
                           !.mesh_objs = _collect_mesh_objects_in_collection(ex.lod_col),
                           !.window_scene = ex.window_scene,
                           !.result = "CANCELLED", !.pc = "done"]
     ELSE ex' = [ex EXCEPT !.prev_scene = ex.window_scene,
                           !.mesh_objs = _collect_mesh_objects_in_collection(ex.lod_col),
                           !.window_scene = "target",
                           !.restore_record = {},
                           !.record = {}, !.restore = <<>>, !.o = 1, !.i = 1,
                           !.log = IF ex.mapping # <<>> THEN <<"switch", "remap">>
                                                         ELSE <<"switch">>,
                           !.pc = IF ex.mapping # <<>> THEN "remap" ELSE "fit"]
  /\ UNCHANGED fitVars

\* the slot under the cursor of _remap_materials_for_render is one it assigns
RemapAssigns ==
  /\ ex.o <= Len(ex.mesh_objs)
  /\ LET slots == ex.slots[ex.mesh_objs[ex.o].name]
     IN  /\ ex.i <= Len(slots)
         /\ slots[ex.i] # "none"
         /\ MappingGet(ex.mapping, slots[ex.i]) \notin {"none", slots[ex.i]}

\* lines 127-152, one step of the two loops: a slot is looked at and
\* perhaps assigned, an object is finished, or the record is returned
RemapStep ==
  /\ ex.pc = "remap"
  /\ IF ex.o > Len(ex.mesh_objs)
     THEN ex' = [ex EXCEPT !.restore_record = ex.record, !.pc = "fit"]
     ELSE LET name == ex.mesh_objs[ex.o].name
              slots == ex.slots[name]
          IN  IF ex.i > Len(slots)
              THEN ex' = [ex EXCEPT
                            !.record = IF ex.restore # <<>>
                                       THEN @ \cup {<<name, ex.restore>>} ELSE @,
                            !.restore = <<>>, !.o = @ + 1, !.i = 1]
              ELSE IF RemapAssigns
              THEN ex' = [ex EXCEPT
                            !.restore = Append(@, <<ex.i, slots[ex.i]>>),
                            !.slots[name][ex.i] = MappingGet(ex.mapping, slots[ex.i]),
                            !.i = @ + 1]
              ELSE ex' = [ex EXCEPT !.i = @ + 1]
  /\ UNCHANGED fitVars

\* line 149: the assignment to slot.material raises; the exception leaves
\* _remap_materials_for_render and the try block of execute
RemapRaise ==
  /\ ex.pc = "remap"
  /\ RemapAssigns
  /\ ex' = [ex EXCEPT !.raised = TRUE, !.pc = "finally"]
  /\ UNCHANGED fitVars

\* lines 268-276: fit_camera_to_objects is called, or raises
ExFit ==
  /\ ex.pc = "fit"
  /\ pc = "idle"
  /\ \/ /\ pc' = "call"
        /\ ex' = [ex EXCEPT !.pc = "fitting", !.log = Append(@, "fit")]
     \/ /\ pc' = "raised"
        /\ ex' = [ex EXCEPT !.raised = TRUE, !.pc = "finally", !.log = Append(@, "fit")]
  /\ UNCHANGED <<cam, scene, ctx, args, pts_world, saved, hl, ui, hist>>

\* ExRender started as soon as the materials are remapped, before the fit
ExRenderBeforeFit ==
  /\ ex.pc = "fit"
  /\ pc = "idle"
  /\ \/ ex' = [ex EXCEPT !.pc = "finally", !.log = Append(@, "render")]
     \/ ex' = [ex EXCEPT !.raised = TRUE, !.pc = "finally", !.log = Append(@, "render")]
  /\ UNCHANGED fitVars

\* lines 279-300: the render, which completes or raises; the file format
\* and path it sets for a saved render are put back by the inner finally
ExRender ==
  /\ ex.pc = "fitting"
  /\ pc = "return"
  /\ \/ ex' = [ex EXCEPT !.pc = "finally", !.log = Append(@, "render")]
     \/ ex' = [ex EXCEPT !.raised = TRUE, !.pc = "finally", !.log = Append(@, "render")]
  /\ UNCHANGED fitVars

\* lines 154-165: every recorded slot gets its material back
_restore_materials(slots, record) ==
  [name \in DOMAIN slots |->
     IF \E r \in record : r[1] = name
     THEN LET info == (CHOOSE r \in record : r[1] = name)[2]
          IN  [i \in 1..Len(slots[name]) |->
                 IF \E j \in 1..Len(info) : info[j][1] = i
                 THEN LET j == CHOOSE j \in 1..Len(info) : info[j][1] = i
                      IN  info[j][2]
                 ELSE slots[name][i]]
     ELSE slots[name]]

\* lines 302-309: the finally block, then the return or the exception
ExFinally ==
  /\ ex.pc = "finally"
  /\ ex' = [ex EXCEPT
              !.slots = IF ex.restore_record # {}
                        THEN _restore_materials(ex.slots, ex.restore_record) ELSE @,
              !.window_scene = ex.prev_scene,
              !.log = (IF ex.restore_record # {} THEN Append(@, "restore") ELSE @)
                        \o <<"switch_back">>,
              !.result = IF ex.raised THEN "raised" ELSE "FINISHED",
              !.pc = "done"]
  /\ UNCHANGED fitVars

(***************************************************************************)
(* Initial states: a camera pose, a subject laid out in front of (or       *)
(* around) that pose, a host context, the arguments                        *)
(***************************************************************************)
\* rotations, as the images of X, Y, Z: the identity (looking along -Z) and
\* a quarter turn about Y (looking along -X)
Rotations == { <<<<1, 0, 0>>, <<0, 1, 0>>, <<0, 0, 1>>>>,
               <<<<0, 0, -1>>, <<0, 1, 0>>, <<1, 0, 0>>>> }

Poses == { [rotation |-> <<<<1, 0, 0>>, <<0, 1, 0>>, <<0, 0, 1>>>>,
            location |-> <<0, 0, 0>>],
           [rotation |-> <<<<0, 0, -1>>, <<0, 1, 0>>, <<1, 0, 0>>>>,
            location |-> <<300, -200, 1000>>] }

\* right * x + up * y + fwd * d for a pose's rotation
Offset(rot, x, y, d) ==
  <<rot[1][1] * x + rot[2][1] * y - rot[3][1] * d,
    rot[1][2] * x + rot[2][2] * y - rot[3][2] * d,
    rot[1][3] * x + rot[2][3] * y - rot[3][3] * d>>

At(pose, x, y, d) ==
  LET o == Offset(pose.rotation, x, y, d)
  IN  <<pose.location[1] + o[1], pose.location[2] + o[2], pose.location[3] + o[3]>>

\* the 8 corners of a box of half-size h around its origin
Corners(rot, h) ==
  << Offset(rot, -h, -h, -h), Offset(rot, -h, -h, h), Offset(rot, -h, h, -h),
     Offset(rot, -h, h, h), Offset(rot, h, -h, -h), Offset(rot, h, -h, h),
     Offset(rot, h, h, -h), Offset(rot, h, h, h) >>

Object(name, type, origin, verts, bbox) ==
  [name |-> name, type |-> type, hide_render |-> FALSE, visible |-> TRUE,
   to_mesh |-> "ok", origin |-> origin, vertices |-> verts, bound_box |-> bbox]

Cube(pose, h, d) ==
  Object("cube", "MESH", At(pose, 0, 0, d), Corners(pose.rotation, h),
         Corners(pose.rotation, h))

\* a mesh given by its vertices in camera terms (x, y, depth)
Mesh(pose, name, cverts) ==
  Object(name, "MESH", pose.location,
         [i \in 1..Len(cverts) |->
            Offset(pose.rotation, cverts[i][1], cverts[i][2], cverts[i][3])],
         <<>>)

\* the subjects: object lists passed to the fit
Subjects(pose) ==
  { <<>>,
    <<Cube(pose, 20000, 100000)>>,
    <<Cube(pose, 20000, 30000)>>,
    <<Mesh(pose, "dot", <<<<0, 0, 1000>>>>)>>,
    <<Mesh(pose, "dots", <<<<0, 0, 1000>>, <<0, 0, 2500>>>>)>>,
    <<Mesh(pose, "spot", <<<<500, 0, 2000>>>>)>>,
    <<Mesh(pose, "astride", <<<<0, 0, -50>>, <<400, 300, 3000>>>>)>>,
    <<Mesh(pose, "behind", <<<<100, 0, -50>>, <<-400, 0, 2000>>>>)>>,
    <<[Cube(pose, 500, 3000) EXCEPT !.hide_render = TRUE]>>,
    <<[Cube(pose, 500, 3000) EXCEPT !.to_mesh = "none"]>>,
    <<[Cube(pose, 10000, 50000) EXCEPT !.type = "EMPTY", !.name = "empty"]>>,
    <<[Cube(pose, 500, 3000) EXCEPT !.type = "LIGHT", !.name = "light"]>>,
    <<[Cube(pose, 500, 3000) EXCEPT !.visible = FALSE], Mesh(pose, "spot", <<<<500, 0, 2000>>>>)>> }

\* camera data: a perspective camera whose angle_x, angle_y have
\* tan(angle / 2) = 1/2, and an orthographic camera
CameraDatas ==
  { [type |-> "PERSP", angle_x |-> <<1, 2>>, angle_y |-> <<1, 2>>,
     sensor_width |-> 36, sensor_height |-> 24, lens |-> 36, sensor_fit |-> "AUTO",
     clip_start |-> 10, clip_end |-> 100000, ortho_scale |-> 600],
    [type |-> "ORTHO", angle_x |-> <<1, 2>>, angle_y |-> <<1, 2>>,
     sensor_width |-> 36, sensor_height |-> 24, lens |-> 36, sensor_fit |-> "AUTO",
     clip_start |-> 10, clip_end |-> 100000, ortho_scale |-> 600] }

\* framing scales in tenths: 0.1, 0.5, 1.0, 2.0, 10.0
FramingScales == {1, 5, 10, 20, 100}

Area(type, regions, spaces) == [type |-> type, regions |-> regions, spaces |-> spaces]

\* host screens: no window (background run); a 3D viewport; another editor
\* only, which can be flipped to a 3D view; a 3D view without a main region
Screens ==
  { [window |-> FALSE, areas |-> <<>>],
    [window |-> TRUE,
     areas |-> <<Area("PROPERTIES", {"WINDOW"}, {"PROPERTIES"}),
                 Area("VIEW_3D", {"WINDOW", "UI"}, {"VIEW_3D"})>>],
    [window |-> TRUE, areas |-> <<Area("OUTLINER", {"WINDOW"}, {"OUTLINER"})>>],
    [window |-> TRUE, areas |-> <<Area("VIEW_3D", {"HEADER"}, {"VIEW_3D"})>>] }

Selections ==
  { [selected |-> {}, active |-> "none"],
    [selected |-> {"lamp", "cube"}, active |-> "lamp"] }

InitFit ==
  \E pose \in Poses, cd \in CameraDatas, fs \in FramingScales,
     scr \in Screens, sel \in Selections, fh \in BOOLEAN, calls \in {0, 1},
     entry \in {"fit_camera_to_objects", "fit_camera_ui"}, axc \in BOOLEAN :
    \E objs \in Subjects(pose) :
      /\ axc => entry = "fit_camera_to_objects" /\ calls = 0 /\ cd.type = "PERSP"
      /\ entry = "fit_camera_ui" =>
           /\ pose.location = <<0, 0, 0>>
           /\ ~fh /\ calls = 0
      /\ (entry = "fit_camera_to_objects" /\ fh) =>
           scr.window /\ scr.areas[1].type = "PROPERTIES" /\ sel.selected = {}
      /\ (entry = "fit_camera_to_objects" /\ ~fh) =>
           /\ pose.location = <<0, 0, 0>>
           /\ cd.type = "PERSP"
           /\ fs \in {10, 20}
           /\ calls = 0
      /\ cam = [location |-> VW(pose.location), rotation |-> pose.rotation, data |-> cd]
      /\ scene = [camera |-> "none",
                  render |-> [resolution_x |-> 512, resolution_y |-> 512,
                              resolution_percentage |-> 100]]
      /\ ctx = [window |-> scr.window, areas |-> scr.areas,
                selected |-> sel.selected, active |-> sel.active]
      /\ args = [entry |-> entry, objects |-> objs, margin |-> fs,
                 allow_xy_center |-> axc,
                 force_headless |-> fh, calls_left |-> calls]
      /\ pc = "call"
      /\ pts_world = <<>>
      /\ saved = [prev_sel |-> {}, prev_active |-> "none"]
      /\ hl = NoLocals
      /\ ui = NoUi
      /\ hist = EntryHist(cam, ctx, 1, cam.location)
      /\ ex = NoEx

Init == InitFit

Next ==
  \/ FitEnter
  \/ OpSelect
  \/ OpViewCamera
  \/ OpAlign
  \/ OpDolly
  \/ OpRestore
  \/ HeadlessStart
  \/ ExpandStep
  \/ ExpandExhausted
  \/ BisectStep
  \/ BisectDone
  \/ UiEnter
  \/ UiAlign
  \/ UiBase
  \/ UiExpandStep
  \/ UiExpandExhausted
  \/ UiBisectStep
  \/ UiBisectDone
  \/ CallAgain

Spec == Init /\ [][Next]_vars

(***************************************************************************)
(* The operator: execute on a collection of objects with material slots    *)
(***************************************************************************)
\* the target scene's camera: at the origin, looking along -Z
Origin ==
  [rotation |-> <<<<1, 0, 0>>, <<0, 1, 0>>, <<0, 0, 1>>>>, location |-> <<0, 0, 0>>]

\* the collections: two meshes; a mesh with a single point on the optical
\* axis; a mesh hidden from the render and an empty
LodCollections ==
  { <<Cube(Origin, 20000, 100000), Mesh(Origin, "spot", <<<<500, 0, 2000>>>>)>>,
    <<Mesh(Origin, "dot", <<<<0, 0, 1000>>>>)>>,
    <<[Cube(Origin, 20000, 100000) EXCEPT !.hide_render = TRUE],
      [Cube(Origin, 10000, 50000) EXCEPT !.type = "EMPTY", !.name = "empty"]>> }

\* the materials of an object's slots; "none" is an empty slot
SlotLayouts ==
  { <<>>,
    <<"VertexColor", "Glass">>,
    <<"none", "VertexColorTransparent", "VertexColor">> }

\* the mapping as execute builds it from the render materials it finds
Mappings ==
  { <<>>,
    <<<<"VertexColor", "VertexColor_Render">>>>,
    <<<<"VertexColor", "VertexColor_Render">>,
      <<"VertexColorTransparent", "VertexColorTransparent_Render">>>> }

InitRender ==
  \E lod \in LodCollections, mapping \in Mappings, ok \in BOOLEAN, hc \in BOOLEAN,
     fh \in BOOLEAN, fs \in {10, 20}, cd \in CameraDatas :
    \E slots \in [ObjectNames(lod) -> SlotLayouts] :
      /\ cd.type = "PERSP"
      /\ cam = [location |-> VW(Origin.location), rotation |-> Origin.rotation, data |-> cd]
      /\ scene = [camera |-> "none",
                  render |-> [resolution_x |-> 512, resolution_y |-> 512,
                              resolution_percentage |-> 100]]
      /\ ctx = [window |-> TRUE,
                areas |-> <<Area("VIEW_3D", {"WINDOW", "UI"}, {"VIEW_3D"})>>,
                selected |-> {"lamp"}, active |-> "lamp"]
      /\ args = [entry |-> "fit_camera_to_objects",
                 objects |-> collect_render_objects_from_collection(lod),
                 margin |-> fs, allow_xy_center |-> FALSE,
                 force_headless |-> fh, calls_left |-> 0]
      /\ pc = "idle"
      /\ pts_world = <<>>
      /\ saved = [prev_sel |-> {}, prev_active |-> "none"]
      /\ hl = NoLocals
      /\ ui = NoUi
      /\ hist = EntryHist(cam, ctx, 1, cam.location)
      /\ ex = [NoEx EXCEPT !.pc = "entry", !.lod_col = lod, !.append_ok = ok,
                           !.has_camera = hc, !.mapping = mapping,
                           !.slots = slots, !.slots0 = slots]

NextRender ==
  \/ ExEnter
  \/ RemapStep
  \/ RemapRaise
  \/ ExFit
  \/ FitEnter
  \/ OpSelect
  \/ OpViewCamera
  \/ OpAlign
  \/ OpDolly
  \/ OpRestore
  \/ HeadlessStart
  \/ ExpandStep
  \/ ExpandExhausted
  \/ BisectStep
  \/ BisectDone
  \/ ExRender
  \/ ExFinally

SpecRender == InitRender /\ [][NextRender]_vars

(***************************************************************************)
(* Properties                                                              *)
(***************************************************************************)
Returned == pc = "return"

FromObjectsEntry == args.entry = "fit_camera_to_objects"

\* the translation of the camera since the call was entered
Moved == VSub(cam.location, hist.cam0.location)

\* C1: when the sampled point list is empty, fit_camera_to_objects is a
\* no-op on every strategy path: it returns with the camera where it was.
C1_EmptyPointsNoOp ==
  (Returned /\ FromObjectsEntry /\ _world_points_evaluated(args.objects) = <<>>)
    => cam.location = hist.cam0.location

\* a 3D viewport can be had: a window, and an area with a main region (the
\* area is a 3D view or is flipped to one)
ViewportAvailable(x) ==
  x.window /\ \E i \in 1..Len(x.areas) : "WINDOW" \in x.areas[i].regions

\* C4: with a non-empty object list exactly one strategy runs per call; the
\* math-only solve runs iff force_headless is set or no 3D viewport is
\* found; and a call that runs the math-only solve neither invokes the
\* host's align operator nor touches the selection.
C4_OneStrategy ==
  (FromObjectsEntry /\ args.objects # <<>>) =>
    /\ hist.headless <= 1 /\ hist.operator <= 1
    /\ ~(hist.headless = 1 /\ (hist.operator = 1 \/ hist.sel_writes))
    /\ Returned => (hist.headless = 1) # (hist.operator = 1)
    /\ Returned =>
         ((hist.headless = 1) <=>
            (args.force_headless \/ ~ViewportAvailable(hist.ctx0)))
    /\ hist.headless = 1 =>
         /\ ctx.selected = hist.ctx0.selected
         /\ ctx.active = hist.ctx0.active

C4_Witness ==
  /\ Returned /\ FromObjectsEntry /\ args.objects # <<>>
  /\ ~args.force_headless /\ hist.ctx0.window
  /\ hist.headless = 1
  /\ cam.location # hist.cam0.location

OnAxisInFront(c, p) ==
  LET cp == CamLocal(c, c.location, p)
  IN  cp.x = WZero /\ cp.y = WZero /\ WSign(WNeg(cp.z)) > 0

\* C5: the perspective solve with framing scale 1.0 on a single point on the
\* optical axis at a positive depth leaves the camera where it was.
C5_OnAxisPointNoMove ==
  (/\ Returned /\ hist.headless = 1 /\ args.margin = 10
   /\ Len(pts_world) = 1 /\ OnAxisInFront(hist.cam0, pts_world[1]))
    => cam.location = hist.cam0.location

\* C8: when a point has depth <= 0 at the initial pose, the math-only fit
\* first moves the camera back so that no normalized extent is measured
\* with a point at depth <= 0, and every point has depth > 0 at the final
\* camera position.
C8_NearPlaneGuard ==
  (/\ hist.headless = 1 /\ pts_world # <<>>
   /\ SomeBehind(hist.cam0, hist.cam0.location, pts_world))
    => /\ ~hist.first_eval_behind
       /\ Returned => ~SomeBehind(cam, cam.location, pts_world)

\* C10: the math-only fit only translates the camera, and only along its
\* forward axis: rotation, field of view, sensor settings and clipping
\* planes stay as they were, and the camera's translation has no component
\* along its right and up axes.
C10_OnlyDolly ==
  hist.headless = 1 =>
    /\ cam.rotation = hist.cam0.rotation
    /\ cam.data = hist.cam0.data
    /\ VDot(Moved, _cam_axes(hist.cam0).right) = WZero
    /\ VDot(Moved, _cam_axes(hist.cam0).up) = WZero

C10_Witness ==
  /\ Returned /\ hist.headless = 1 /\ args.margin # 10
  /\ ~hist.unbracketed
  /\ WSign(VDot(Moved, _cam_axes(hist.cam0).fwd)) < 0

\* the 8 corners of a cube centred on the optical axis of camera c, in
\* front of it, its faces along the camera's axes
IsCubeOnAxis(c, pts) ==
  /\ Len(pts) = 8
  /\ Cardinality({pts[i] : i \in 1..8}) = 8
  /\ LET L(i) == CamLocal(c, c.location, pts[i])
         h == WAbs(L(1).x)
         depths == {WNeg(L(i).z) : i \in 1..8}
     IN  /\ h # WZero
         /\ \A i \in 1..8 : WAbs(L(i).x) = h /\ WAbs(L(i).y) = h
         /\ \A d \in depths : WSign(d) > 0
         /\ \E d1, d2 \in depths : depths = {d1, d2} /\ WSub(d2, d1) = WMul(h, 2)

\* r_max of the points at the camera's place, against num/den: -1, 0, 1
RMaxNow(num, den) ==
  RMaxCmp(cam, cam.location, pts_world, hl.tanFx, hl.tanFy, num, den)

\* |r_max - 10/f| <= 1e-4 at the camera's place, f the framing scale in tenths
ExtentIsInverseScale(f) ==
  /\ RMaxNow(100000 - f, 10000 * f) >= 0
  /\ RMaxNow(100000 + f, 10000 * f) <= 0

SecondMove == WAbs(VDot(Moved, _cam_axes(hist.cam0).fwd))

\* C7: a second math-only fit with the same arguments leaves the camera
\* where the first one put it, within the search tolerance.
C7_Idempotent ==
  (Returned /\ hist.call_no = 2 /\ hist.headless = 1 /\ pts_world # <<>>)
    => WCmp(SecondMove, W(3)) <= 0

Exited == pc \in {"return", "raised"}

\* C2: when an operator-delegation fit has changed the host selection, the
\* selected objects and the active object are those of entry on every exit
\* of the call.
C2_SelectionRestored ==
  (Exited /\ hist.sel_writes)
    => /\ ctx.selected = hist.ctx0.selected
       /\ ctx.active = hist.ctx0.active

\* the last place the expanding bracket tested
LastTested ==
  IF hist.headless = 1
  THEN VAdd(hist.cam0.location, VScale(_cam_axes(hist.cam0).fwd, hist.last_test))
  ELSE VAdd(ui.origin, VScale(ui.dir_vec, hist.last_test))

\* C9: when the expanding bracket never crosses the target, the call returns
\* with the camera at the last place the expansion tested.
C9_LastTestedKept ==
  (Exited /\ hist.unbracketed) => (Returned /\ cam.location = LastTested)

\* C9 as the code has it: the call returns; the math-only fit leaves the
\* camera at the last tested place moved back along the forward axis by the
\* framing-scale dolly measured from there; fit_camera_ui still bisects
\* between the start and the last tested place and leaves the camera at the
\* upper end of that bracket.
C9_LastTestedThenDolly ==
  (Exited /\ hist.unbracketed) =>
    /\ Returned
    /\ IF hist.headless = 1
       THEN LET there == [hist.cam0 EXCEPT !.location = LastTested]
                fwd == _cam_axes(hist.cam0).fwd
            IN  cam.location =
                  VSub(LastTested, VScale(fwd, DollyDelta(there, args.margin, pts_world)))
       ELSE /\ cam.location = VAdd(ui.origin, VScale(ui.dir_vec, W(ui.hi)))
            /\ ui.hi > 0
            /\ WCmp(W(ui.hi), hist.last_test) <= 0

C9_Witness ==
  /\ Returned /\ hist.unbracketed /\ hist.headless = 1
  /\ args.margin = 20
  /\ cam.location # LastTested

\* C3: on every exit of execute the window's scene is the scene of entry
\* and every material slot of every mesh object of the framed collection
\* holds the material of entry.
C3_PriorStateRestored ==
  ex.pc = "done"
    => /\ ex.window_scene = ex.scene0
       /\ ex.slots = ex.slots0

\* where the camera is when the framing-scale step of the running call
\* starts: after the host's align operator, or at the tight fit's offset
TightPlace == IF pc = "op_dolly" THEN cam.location ELSE AlongFwd(hl.hi_t)

\* the framing-scale step of cam_fit is about to run
AtDolly ==
  \/ pc = "op_dolly"
  \/ pc = "bisect" /\ hl.k = BisectBudget
  \/ pc = "expand" /\ hl.k = ExpandBudget

\* -1, 0, 1: the framing scale against 1.0
ScaleSide == IF args.margin < 10 THEN -1 ELSE IF args.margin > 10 THEN 1 ELSE 0

\* C11: the framing-scale step leaves the camera where the tight fit put it
\* when the framing scale is 1.0, moves it strictly forward along its
\* forward axis when the scale is below 1.0 and strictly backward when it is
\* above 1.0, without any sideways move; fit_camera_ui searches backward
\* exactly when the scale is above 1.0, forward when it is below, and ends
\* strictly on that side of where the search started.
C11_ScaleDirection ==
  [][ /\ AtDolly =>
           LET d == VSub(cam'.location, TightPlace)
               ax == _cam_axes(cam)
           IN  /\ WSign(VDot(d, ax.fwd)) = -ScaleSide
               /\ VDot(d, ax.right) = WZero
               /\ VDot(d, ax.up) = WZero
      /\ (pc = "ui_base" /\ pc' = "ui_expand") =>
           /\ ScaleSide # 0
           /\ ui'.dir_vec = IF ScaleSide > 0 THEN VNegI(_cam_axes(cam).fwd)
                                             ELSE _cam_axes(cam).fwd
      /\ (pc = "ui_base" /\ ScaleSide = 0) => (pc' = "return" /\ cam' = cam)
      /\ (pc = "ui_bisect" /\ pc' = "return") =>
           WSign(VDot(VSub(cam'.location, ui.origin), _cam_axes(cam).fwd)) = -ScaleSide
    ]_vars

C11_Witness ==
  /\ Returned /\ hist.operator = 1 /\ FromObjectsEntry
  /\ args.margin = 20 /\ pts_world # <<>>
  /\ WSign(VDot(Moved, _cam_axes(hist.cam0).fwd)) < 0

\* the largest and the smallest of a non-empty set of wide integers
WMaxOf(S) == CHOOSE u \in S : \A v \in S : WCmp(u, v) >= 0

WMinOf(S) == CHOOSE u \in S : \A v \in S : WCmp(u, v) <= 0

\* width and height of the camera-plane bounding rectangle of the points
PlaneRect(c, pts) ==
  LET xs == {CamLocal(c, c.location, pts[i]).x : i \in 1..Len(pts)}
      ys == {CamLocal(c, c.location, pts[i]).y : i \in 1..Len(pts)}
  IN  [w |-> WSub(WMaxOf(xs), WMinOf(xs)), h |-> WSub(WMaxOf(ys), WMinOf(ys)),
       cx2 |-> WAdd(WMaxOf(xs), WMinOf(xs)), cy2 |-> WAdd(WMaxOf(ys), WMinOf(ys))]

\* max(W, H * A), A the aspect ratio resolution_x / resolution_y
OrthoFrameWidth(c, pts, render) ==
  LET r == PlaneRect(c, pts)
      ha == WDiv(WMul(r.h, render.resolution_x), render.resolution_y)
  IN  IF WCmp(r.w, ha) >= 0 THEN r.w ELSE ha

\* C12: a fit with framing scale 1.0 on an orthographic camera sets the
\* camera's ortho_scale to max(W, H * A) of the camera-plane bounding
\* rectangle of the points.
C12_OrthoScaleSet ==
  (/\ Returned /\ FromObjectsEntry /\ pts_world # <<>>
   /\ hist.cam0.data.type = "ORTHO" /\ args.margin = 10)
    => W(cam.data.ortho_scale) = OrthoFrameWidth(cam, pts_world, scene.render)

\* the camera-plane bounding rectangle of the points is centred on the
\* optical axis of camera c: the midpoints of its x and y ranges are 0
RectCentred(c, pts) ==
  LET r == PlaneRect(c, pts)
  IN  r.cx2 = WZero /\ r.cy2 = WZero

NeedsBoxFallback(o) ==
  /\ _is_render_candidate(o)
  /\ o.bound_box # <<>>
  /\ o.type # "MESH" \/ o.to_mesh # "ok"

\* the points sampled hold every world-space bounding-box corner of o
HoldsBoxCorners(pts, o) ==
  \A j \in 1..Len(o.bound_box) :
    \E k \in 1..Len(pts) : pts[k] = WorldOf(o, o.bound_box[j])

\* C14: every render candidate passed to the sampler that is no mesh, or
\* whose evaluated mesh cannot be extracted, adds its eight world-space
\* bounding-box corners to the sampled points.
C14_BoxFallback ==
  (FromObjectsEntry /\ args.objects # <<>> /\ pc \notin {"call", "idle"})
    => \A i \in 1..Len(args.objects) :
         NeedsBoxFallback(args.objects[i])
           => HoldsBoxCorners(pts_world, args.objects[i])

\* the steps of execute, in the order the render phase is to take them
StepOrder == <<"switch", "remap", "fit", "render", "restore", "switch_back">>

StepNo(e) == CHOOSE n \in 1..Len(StepOrder) : StepOrder[n] = e

Logged(e) == \E n \in 1..Len(ex.log) : ex.log[n] = e

\* C15: in a run of execute that reaches the render call the steps taken are
\* in the order switch to the target scene, remap materials, fit camera,
\* render, restore materials, switch back: the render starts after the fit
\* has returned and while the window shows the target scene, and neither
\* the material restore nor the switch back comes before the render.
C15_StepOrder ==
  Logged("render") =>
    /\ \A m, n \in 1..Len(ex.log) : m < n => StepNo(ex.log[m]) < StepNo(ex.log[n])
    /\ Logged("switch") /\ Logged("fit")
    /\ Logged("remap") <=> ex.mapping # <<>>
    /\ pc = "return"
    /\ ~Logged("switch_back") =>
         /\ ex.window_scene = "target"
         /\ ~Logged("restore")
         /\ ex.restore_record = {} => ex.slots = ex.slots0
         /\ ex.restore_record # {} => ex.slots # ex.slots0
    /\ ex.pc = "done" => Logged("switch_back") /\ ex.window_scene = ex.scene0

C15_Witness ==
  /\ ex.pc = "done"
  /\ ex.log = StepOrder
  /\ cam.location # hist.cam0.location

\* r_max against the target with the camera at base + fwd * t: -1, 0, 1
RMaxAtOffset(t) ==
  RMaxCmp(cam, AlongFwd(t), pts_world, hl.tanFx, hl.tanFy, target[1], target[2])

\* the width of the bracket
BracketWidth(h) == WAbs(WSub(h.hi_t, h.lo_t))

\* the bracket of the bisection: r_max has not crossed the target at lo_t,
\* it has crossed it at hi_t, and the camera is where the solve found it
BracketHolds ==
  /\ ~Crossed(RMaxAtOffset(hl.lo_t))
  /\ Crossed(RMaxAtOffset(hl.hi_t))
  /\ cam.location = hl.base

RECURSIVE HalvedTimes(_, _)
\* u halved k times, each time down to the whole unit
HalvedTimes(u, k) == IF k = 0 \/ u = WZero THEN u ELSE HalvedTimes(WDiv(u, 2), k - 1)

\* after k bisections the bracket is the crossing step halved k times (to
\* the whole unit)
BracketHalved ==
  LET h == HalvedTimes(hl.step, hl.k)
  IN  /\ WCmp(BracketWidth(hl), h) >= 0
      /\ WCmp(BracketWidth(hl), WAdd(h, W(1))) <= 0

\* C16: once the expansion has found a crossing, at every iteration of the
\* bisection lo_t is an offset where r_max has not crossed the target and
\* hi_t one where it has, the bracket halves at each iteration, the offset
\* finally applied is on the crossed side, and the probes leave the camera
\* where it was.
C16_BracketInvariant ==
  /\ pc = "bisect" => BracketHolds /\ BracketHalved
  /\ pc = "expand" => cam.location = hl.base

\* the search started with r_max on the target itself: it goes backward and
\* its first bracket has lo_t = 0, a place the crossing test accepts
StartedOnTarget == hl.cur = 0 /\ ~hl.go_forward /\ hl.lo_t = WZero

\* C16 as the code has it: at every iteration of the bisection hi_t is an
\* offset where r_max has crossed the target; lo_t is one where it has not,
\* unless the search started with r_max equal to the target, when lo_t
\* stays at offset 0 where r_max is the target; the bracket halves at each
\* iteration and the probes leave the camera where it was.
C16_BracketFromStart ==
  /\ pc = "bisect" =>
       /\ Crossed(RMaxAtOffset(hl.hi_t))
       /\ ~Crossed(RMaxAtOffset(hl.lo_t))
            \/ (StartedOnTarget /\ RMaxAtOffset(hl.lo_t) = 0)
       /\ cam.location = hl.base
       /\ BracketHalved
  /\ pc = "expand" => cam.location = hl.base

C16_Witness ==
  /\ pc = "bisect" /\ hl.k = BisectBudget
  /\ StartedOnTarget
  /\ hl.hi_t # WZero
====
